---- MODULE Spec2Model ----
(***************************************************************************)
(* Food Delivery Routing System (streamlit_app.py): the restaurant linked  *)
(* list, the rider list, the order queue (deque), the undo stack and the   *)
(* order id counter, driven by the menu loop of main().                    *)
(*                                                                         *)
(* Conventions: the linked list is the sequence of its nodes' data from    *)
(* head to tail; a rider referenced by the scan is its index in my_riders  *)
(* (0 is None); ratings are kept in tenths (4.5 is 45); an f-string        *)
(* "Placed Order #3" is the pair of its text and the number formatted in.  *)
(***************************************************************************)
EXTENDS Integers, Sequences, FiniteSets, TLC

\* ---------------------------------------------------------------- bounds
MaxOrders == 2
MaxRestaurants == 2
MaxRiders == 1

\* ------------------------------------------------------- program constants
START_MIN_DISTANCE == 1000
FIRST_ORDER_ID == 1

\* ------------------------------------------------------------------ inputs
\* Arguments a caller passes to add_restaurant: rows of initialize_data.
\* Nothing stops the caller from passing the same row twice.
RestaurantInputs ==
    { [id |-> 101, name |-> "Burger King", rating |-> 45, location |-> 2],
      [id |-> 103, name |-> "Subway",      rating |-> 40, location |-> 5] }

\* Riders a caller appends to my_riders: the first row of initialize_data,
\* which the caller may append more than once.
RiderInputs ==
    { [id |-> 201, name |-> "Ali", location |-> 1, deliveries_done |-> 0] }

\* What the user types at the two prompts of place_order.
RestIdInputs == {101, 103, 999}
CustLocInputs == {7, 1010}

VARIABLES
    pc,                \* "setup" before the menu loop, "menu" in it, "exit" after
    my_restaurants,    \* RestaurantLinkedList, head first
    my_riders,         \* list of Rider
    order_queue,       \* deque of Order, left end first
    undo_stack,        \* list of log lines, top last
    order_id_counter,
    lastOp,            \* the last operation run and what it printed
    placed,            \* history: order ids given out, in order
    processed          \* history: order ids taken off the queue, in order

vars == <<pc, my_restaurants, my_riders, order_queue, undo_stack,
          order_id_counter, lastOp, placed, processed>>

\* ------------------------------------------------------------- data models
Restaurant(id, name, rating, location) ==
    [id |-> id, name |-> name, rating |-> rating, location |-> location]

Rider(id, name, location, deliveries_done) ==
    [id |-> id, name |-> name, location |-> location,
     deliveries_done |-> deliveries_done]

Order(order_id, restaurant_name, restaurant_loc, customer_loc) ==
    [order_id |-> order_id, restaurant_name |-> restaurant_name,
     restaurant_loc |-> restaurant_loc, customer_loc |-> customer_loc]

\* None, for a variable that otherwise holds a Restaurant / an Order / a log line
NoRestaurant == Restaurant(0, "", 0, 0)
NoOrder == Order(0, "", 0, 0)
NoEntry == <<"", 0>>

\* variant: the line is formatted from the counter, already advanced
PlacedEntryFromCounter(order) == <<"Placed Order #", order.order_id + 1>>

PlacedEntry(order) == <<"Placed Order #", order.order_id>>
ProcessedEntry(order) == <<"Processed Order #", order.order_id>>

\* variant: the plain difference, abs() forgotten
AbsForgotten(x) == x

Abs(x) == IF x < 0 THEN -x ELSE x

\* ------------------------------------------------------------ linked list
add_restaurant(list, id, name, rating, loc) ==
    Append(list, Restaurant(id, name, rating, loc))

\* variant: while temp.next is not None, the last node is never looked at
RECURSIVE find_by_id_before_last(_, _)
find_by_id_before_last(list, id) ==
    IF Len(list) <= 1 THEN NoRestaurant
    ELSE IF Head(list).id = id THEN Head(list)
    ELSE find_by_id_before_last(Tail(list), id)

RECURSIVE find_by_id(_, _)
find_by_id(list, id) ==
    IF list = <<>> THEN NoRestaurant
    ELSE IF Head(list).id = id THEN Head(list)
    ELSE find_by_id(Tail(list), id)

\* ------------------------------------------------------------ what was printed
Printed(op, outcome) ==
    [op |-> op, outcome |-> outcome, order |-> NoOrder, best_rider |-> 0,
     min_distance |-> 0, dist_to_cust |-> 0, total_dist |-> 0,
     last_action |-> NoEntry]

\* ------------------------------------------------------------------- Init
Init ==
    /\ pc = "setup"
    /\ my_restaurants = <<>>
    /\ my_riders = <<>>
    /\ order_queue = <<>>
    /\ undo_stack = <<>>
    /\ order_id_counter = FIRST_ORDER_ID
    /\ lastOp = Printed("init", "")
    /\ placed = <<>>
    /\ processed = <<>>

\* ------------------------------------------------------------------ setup
AddRestaurant(r) ==
    /\ pc = "setup"
    /\ Len(my_restaurants) < MaxRestaurants
    /\ my_restaurants' = add_restaurant(my_restaurants, r.id, r.name, r.rating, r.location)
    /\ lastOp' = Printed("add_restaurant", "")
    /\ UNCHANGED <<pc, my_riders, order_queue, undo_stack, order_id_counter,
                   placed, processed>>

AddRider(r) ==
    /\ pc = "setup"
    /\ Len(my_riders) < MaxRiders
    /\ my_riders' = Append(my_riders, Rider(r.id, r.name, r.location, r.deliveries_done))
    /\ lastOp' = Printed("add_rider", "")
    /\ UNCHANGED <<pc, my_restaurants, order_queue, undo_stack, order_id_counter,
                   placed, processed>>

initialize_data ==
    /\ pc = "setup"
    /\ my_restaurants = <<>>
    /\ my_riders = <<>>
    /\ my_restaurants' =
         add_restaurant(
           add_restaurant(
             add_restaurant(my_restaurants, 101, "Burger King", 45, 2),
             102, "Pizza Hut", 42, 8),
           103, "Subway", 40, 5)
    /\ my_riders' = my_riders \o << Rider(201, "Ali", 1, 0),
                                    Rider(202, "Bilal", 6, 2),
                                    Rider(203, "Hamza", 3, 0) >>
    /\ pc' = "menu"
    /\ lastOp' = Printed("initialize_data", "")
    /\ UNCHANGED <<order_queue, undo_stack, order_id_counter,
                   placed, processed>>

EnterMenu ==
    /\ pc = "setup"
    /\ pc' = "menu"
    /\ lastOp' = Printed("main", "")
    /\ UNCHANGED <<my_restaurants, my_riders, order_queue, undo_stack,
                   order_id_counter, placed, processed>>

\* ------------------------------------------------------------ place_order
\* variant: the counter is not advanced
NextOrderIdKept(counter) == counter

NextOrderId(counter) == counter + 1

\* int(input(...)) raised ValueError
place_order_invalid_input ==
    /\ pc = "menu"
    /\ lastOp' = Printed("place_order", "Invalid input! Please enter numbers.")
    /\ UNCHANGED <<pc, my_restaurants, my_riders, order_queue, undo_stack,
                   order_id_counter, placed, processed>>

\* variant: the id is allocated before the lookup
place_order_unknown_allocates ==
    /\ lastOp' = Printed("place_order", "Invalid Restaurant ID!")
    /\ order_id_counter' = order_id_counter + 1
    /\ UNCHANGED <<pc, my_restaurants, my_riders, order_queue, undo_stack,
                   placed, processed>>

\* find_by_id returned None
place_order_unknown ==
    /\ lastOp' = Printed("place_order", "Invalid Restaurant ID!")
    /\ UNCHANGED <<pc, my_restaurants, my_riders, order_queue, undo_stack,
                   order_id_counter, placed, processed>>

place_order(rest_id, cust_loc) ==
    /\ pc = "menu"
    /\ find_by_id(my_restaurants, rest_id) # NoRestaurant => order_id_counter <= MaxOrders
    /\ LET r == find_by_id(my_restaurants, rest_id) IN
       IF r = NoRestaurant
       THEN place_order_unknown
       ELSE LET new_order == Order(order_id_counter, r.name, r.location, cust_loc) IN
            /\ order_id_counter' = NextOrderId(order_id_counter)
            /\ order_queue' = Append(order_queue, new_order)
            /\ undo_stack' = Append(undo_stack, PlacedEntry(new_order))
            /\ lastOp' = [Printed("place_order", "Success!") EXCEPT !.order = new_order]
            /\ placed' = Append(placed, new_order.order_id)
            /\ UNCHANGED <<pc, my_restaurants, my_riders, processed>>

\* ---------------------------------------------------------- process_order
\* variant: order_queue[0], the head is read but not removed
popleft_peek(queue) == [item |-> Head(queue), rest |-> queue]

\* variant: deque.pop(), the right end
popleft_right(queue) ==
    [item |-> queue[Len(queue)], rest |-> SubSeq(queue, 1, Len(queue) - 1)]

\* deque.popleft(): the item taken and the deque left behind
popleft(queue) == [item |-> Head(queue), rest |-> Tail(queue)]

\* variant: dist <= min_distance, the last of the tied riders wins
CloserOrTied(dist, min_distance) == dist <= min_distance

\* the test of the scan loop: dist < min_distance
Closer(dist, min_distance) == dist < min_distance

\* for rider in my_riders: ... from rider i on, with the best so far
RECURSIVE ScanRiders(_, _, _, _, _)
ScanRiders(riders, restaurant_loc, i, best_rider, min_distance) ==
    IF i > Len(riders)
    THEN [best_rider |-> best_rider, min_distance |-> min_distance]
    ELSE LET dist == Abs(riders[i].location - restaurant_loc) IN
         IF Closer(dist, min_distance)
         THEN ScanRiders(riders, restaurant_loc, i + 1, i, dist)
         ELSE ScanRiders(riders, restaurant_loc, i + 1, best_rider, min_distance)

\* variant: deliveries_done = 1 instead of += 1
DeliverCountsOne(rider, order) ==
    [rider EXCEPT !.deliveries_done = 1, !.location = order.customer_loc]

\* variant: the rider is left at the restaurant
DeliverToRestaurant(rider, order) ==
    [rider EXCEPT !.deliveries_done = @ + 1, !.location = order.restaurant_loc]

\* Update Rider Stats
Deliver(rider, order) ==
    [rider EXCEPT !.deliveries_done = @ + 1, !.location = order.customer_loc]

\* variant: every rider as close as the best one is updated
AssignEveryNearest(riders, best_rider, order) ==
    [i \in 1..Len(riders) |->
        IF Abs(riders[i].location - order.restaurant_loc)
             = Abs(riders[best_rider].location - order.restaurant_loc)
        THEN Deliver(riders[i], order)
        ELSE riders[i]]

\* my_riders after the two writes through best_rider
AssignRider(riders, best_rider, order) ==
    [riders EXCEPT ![best_rider] = Deliver(@, order)]

\* variant: the append is outside the if
LogProcessedAlways(stack, best_rider, order) ==
    Append(stack, ProcessedEntry(order))

\* undo_stack after the if best_rider / else
LogProcessed(stack, best_rider, order) ==
    IF best_rider # 0 THEN Append(stack, ProcessedEntry(order)) ELSE stack

\* variant: the attempt is logged before the emptiness test
process_order_empty_logged ==
    /\ lastOp' = Printed("process_order", "No orders pending.")
    /\ undo_stack' = Append(undo_stack, ProcessedEntry(NoOrder))
    /\ UNCHANGED <<pc, my_restaurants, my_riders, order_queue,
                   order_id_counter, placed, processed>>

\* if not order_queue: return
process_order_empty ==
    /\ lastOp' = Printed("process_order", "No orders pending.")
    /\ UNCHANGED <<pc, my_restaurants, my_riders, order_queue, undo_stack,
                   order_id_counter, placed, processed>>

process_order ==
    /\ pc = "menu"
    /\ IF order_queue = <<>>
       THEN process_order_empty
       ELSE LET p == popleft(order_queue)
                current_order == p.item
                s == ScanRiders(my_riders, current_order.restaurant_loc, 1, 0,
                                START_MIN_DISTANCE)
                best_rider == s.best_rider
                min_distance == s.min_distance
                dist_to_cust == Abs(current_order.restaurant_loc - current_order.customer_loc)
                total_dist == min_distance + dist_to_cust
            IN
            /\ order_queue' = p.rest
            /\ processed' = Append(processed, current_order.order_id)
            /\ undo_stack' = LogProcessed(undo_stack, best_rider, current_order)
            /\ IF best_rider # 0
               THEN /\ my_riders' = AssignRider(my_riders, best_rider, current_order)
                    /\ lastOp' = [Printed("process_order", "Assigned") EXCEPT
                                    !.order = current_order,
                                    !.best_rider = best_rider,
                                    !.min_distance = min_distance,
                                    !.dist_to_cust = dist_to_cust,
                                    !.total_dist = total_dist]
               ELSE /\ my_riders' = my_riders
                    /\ lastOp' = [Printed("process_order", "No riders found!") EXCEPT
                                    !.order = current_order]
            /\ UNCHANGED <<pc, my_restaurants, order_id_counter, placed>>

\* ------------------------------------------------------ show_riders_sorted
\* variant: r goes before the elements whose key equals its own
RECURSIVE InsertBeforeTies(_, _)
InsertBeforeTies(sorted, r) ==
    IF sorted = <<>> THEN <<r>>
    ELSE IF Head(sorted).deliveries_done < r.deliveries_done
         THEN <<Head(sorted)>> \o InsertBeforeTies(Tail(sorted), r)
         ELSE <<r>> \o sorted

\* list.sort(key=...) is stable: r goes after every element whose key is <= its own
RECURSIVE InsertByDeliveries(_, _)
InsertByDeliveries(sorted, r) ==
    IF sorted = <<>> THEN <<r>>
    ELSE IF Head(sorted).deliveries_done <= r.deliveries_done
         THEN <<Head(sorted)>> \o InsertByDeliveries(Tail(sorted), r)
         ELSE <<r>> \o sorted

RECURSIVE SortPrefix(_, _)
SortPrefix(riders, n) ==
    IF n = 0 THEN <<>>
    ELSE InsertByDeliveries(SortPrefix(riders, n - 1), riders[n])

SortByDeliveries(riders) == SortPrefix(riders, Len(riders))

show_riders_sorted ==
    /\ pc = "menu"
    /\ my_riders' = SortByDeliveries(my_riders)
    /\ lastOp' = Printed("show_riders_sorted", "")
    /\ UNCHANGED <<pc, my_restaurants, order_queue, undo_stack, order_id_counter,
                   placed, processed>>

\* ------------------------------------------------------- undo_last_action
\* variant: list.pop(0), the oldest line
pop_front(stack) == [item |-> Head(stack), rest |-> Tail(stack)]

\* list.pop(): the item taken and the list left behind
pop(stack) == [item |-> stack[Len(stack)], rest |-> SubSeq(stack, 1, Len(stack) - 1)]

\* variant: undoing a placed order also takes it off the queue
undo_last_action_reverting ==
    /\ pc = "menu"
    /\ IF undo_stack = <<>>
       THEN /\ lastOp' = Printed("undo_last_action", "Nothing to undo.")
            /\ UNCHANGED <<undo_stack, order_queue>>
       ELSE LET p == [item |-> undo_stack[Len(undo_stack)],
                      rest |-> SubSeq(undo_stack, 1, Len(undo_stack) - 1)] IN
            /\ undo_stack' = p.rest
            /\ lastOp' = [Printed("undo_last_action", "Undoing action") EXCEPT
                            !.last_action = p.item]
            /\ order_queue' = IF p.item[1] = "Placed Order #"
                               THEN SelectSeq(order_queue,
                                              LAMBDA o : o.order_id # p.item[2])
                               ELSE order_queue
    /\ UNCHANGED <<pc, my_restaurants, my_riders, order_id_counter,
                   placed, processed>>

undo_last_action ==
    /\ pc = "menu"
    /\ IF undo_stack = <<>>
       THEN /\ lastOp' = Printed("undo_last_action", "Nothing to undo.")
            /\ UNCHANGED undo_stack
       ELSE LET p == pop(undo_stack) IN
            /\ undo_stack' = p.rest
            /\ lastOp' = [Printed("undo_last_action", "Undoing action") EXCEPT
                            !.last_action = p.item]
    /\ UNCHANGED <<pc, my_restaurants, my_riders, order_queue, order_id_counter,
                   placed, processed>>

\* ------------------------------------------------------------------- main
InvalidChoice ==
    /\ pc = "menu"
    /\ lastOp' = Printed("main", "Invalid choice!")
    /\ UNCHANGED <<pc, my_restaurants, my_riders, order_queue, undo_stack,
                   order_id_counter, placed, processed>>

Exit ==
    /\ pc = "menu"
    /\ pc' = "exit"
    /\ lastOp' = Printed("main", "exit")
    /\ UNCHANGED <<my_restaurants, my_riders, order_queue, undo_stack,
                   order_id_counter, placed, processed>>

\* main(): initialize_data(), then the menu loop
Next ==
    \/ initialize_data
    \/ place_order_invalid_input
    \/ \E rest_id \in RestIdInputs, cust_loc \in CustLocInputs : place_order(rest_id, cust_loc)
    \/ process_order
    \/ show_riders_sorted
    \/ undo_last_action
    \/ InvalidChoice
    \/ Exit

Spec == Init /\ [][Next]_vars

\* main() with a user who keeps choosing "2. Process Next Order" for as long
\* as that does something, and never chooses "4. Undo Last Action", which
\* reads and writes undo_stack only
LiveNext ==
    \/ initialize_data
    \/ place_order_invalid_input
    \/ \E rest_id \in RestIdInputs, cust_loc \in CustLocInputs : place_order(rest_id, cust_loc)
    \/ process_order
    \/ show_riders_sorted
    \/ InvalidChoice
    \/ Exit

LiveSpec == Init /\ [][LiveNext]_vars /\ WF_vars(process_order)

\* a caller that fills the restaurant list and the rider list itself and then
\* runs the same operations
EngineNext ==
    \/ \E r \in RestaurantInputs : AddRestaurant(r)
    \/ \E r \in RiderInputs : AddRider(r)
    \/ EnterMenu
    \/ place_order_invalid_input
    \/ \E rest_id \in RestIdInputs, cust_loc \in CustLocInputs : place_order(rest_id, cust_loc)
    \/ process_order
    \/ show_riders_sorted
    \/ undo_last_action
    \/ InvalidChoice
    \/ Exit

EngineSpec == Init /\ [][EngineNext]_vars

\* =================================================================== claims

\* C1: every process_order on a non-empty queue takes the head of the queue,
\* which is the queued order with the smallest id, leaves the rest in place,
\* and the ids taken so far are the ids given out so far, in the same order.
C1_QueueIsFIFO ==
    [][ (process_order /\ order_queue # <<>>) =>
          /\ lastOp'.order = order_queue[1]
          /\ \A i \in 1..Len(order_queue) :
                lastOp'.order.order_id <= order_queue[i].order_id
          /\ order_queue' = SubSeq(order_queue, 2, Len(order_queue))
          /\ Len(processed') <= Len(placed)
          /\ processed' = SubSeq(placed, 1, Len(processed')) ]_vars

\* an order was taken while a later one stayed queued
C1_Witness ==
    /\ lastOp.op = "process_order"
    /\ lastOp.order # NoOrder
    /\ order_queue # <<>>
    /\ processed = <<1>>
    /\ placed = <<1, 2>>

\* C2: the k-th successful place_order gets id k, the counter is one more than
\* the number of ids given out, and no two queued orders share an id.
C2_OrderIdsSequential ==
    /\ \A k \in 1..Len(placed) : placed[k] = k
    /\ order_id_counter = Len(placed) + 1
    /\ \A i, j \in 1..Len(order_queue) :
          order_queue[i].order_id = order_queue[j].order_id => i = j

\* two ids given out, with a processing and an undo in between or after
C2_Witness ==
    /\ Len(placed) = 2
    /\ processed # <<>>
    /\ Len(undo_stack) < 2
    /\ lastOp.outcome = "Invalid Restaurant ID!"

\* C3: place_order with an id that no restaurant in the list has reports the
\* invalid id and leaves the counter, queue, undo stack, riders and list alone.
C3_UnknownRestaurantNoChange ==
    [][ \A rest_id \in RestIdInputs, cust_loc \in CustLocInputs :
          ( /\ place_order(rest_id, cust_loc)
            /\ \A i \in 1..Len(my_restaurants) : my_restaurants[i].id # rest_id )
          => /\ lastOp'.outcome = "Invalid Restaurant ID!"
             /\ UNCHANGED <<order_id_counter, order_queue, undo_stack,
                            my_riders, my_restaurants>> ]_vars

\* a failed submission in a state that has an order queued and a log line
C3_Witness ==
    /\ lastOp.outcome = "Invalid Restaurant ID!"
    /\ order_queue # <<>>
    /\ undo_stack # <<>>
    /\ my_riders # <<>>

\* C4: the rider process_order assigns is at least as close to the restaurant
\* as every rider of the list, and no rider before it in the list is as close.
C4_NearestFirstSeen ==
    [][ (process_order /\ lastOp'.outcome = "Assigned") =>
          LET b == lastOp'.best_rider
              loc == order_queue[1].restaurant_loc
          IN /\ b \in 1..Len(my_riders)
             /\ \A j \in 1..Len(my_riders) :
                   /\ Abs(my_riders[b].location - loc) <= Abs(my_riders[j].location - loc)
                   /\ Abs(my_riders[b].location - loc) = Abs(my_riders[j].location - loc)
                        => b <= j ]_vars

\* a rider was assigned while a later rider of the list was equally close
C4_Witness ==
    /\ lastOp.outcome = "Assigned"
    /\ \E j \in 1..Len(my_riders) :
          /\ j > lastOp.best_rider
          /\ Abs(my_riders[j].location - lastOp.order.restaurant_loc) = lastOp.min_distance

\* C5: process_order with a non-empty queue and a non-empty rider list assigns
\* a rider; "No riders found!" happens only when the list is empty.
C5_AssignsWheneverRidersExist ==
    [][ (process_order /\ order_queue # <<>> /\ my_riders # <<>>) =>
          lastOp'.outcome = "Assigned" ]_vars

\* C6: after an assignment the assigned rider is at the order's customer
\* location and has one more delivery than before.
C6_RiderMovesAndCounts ==
    [][ (process_order /\ lastOp'.outcome = "Assigned") =>
          LET b == lastOp'.best_rider IN
          /\ my_riders'[b].location = order_queue[1].customer_loc
          /\ my_riders'[b].deliveries_done = my_riders[b].deliveries_done + 1 ]_vars

\* a rider was assigned and now stands at a customer location away from the restaurant
C6_Witness ==
    /\ lastOp.outcome = "Assigned"
    /\ my_riders[lastOp.best_rider].location = lastOp.order.customer_loc
    /\ lastOp.order.customer_loc # lastOp.order.restaurant_loc
    /\ my_riders[lastOp.best_rider].deliveries_done = 3

\* C7: process_order with a non-empty queue and an empty rider list takes the
\* head order off the queue, appends no log line and keeps the counter; an
\* order id that was taken off the queue is never in the queue again.
C7_NoRidersDropsOrder ==
    /\ [][ (process_order /\ order_queue # <<>> /\ my_riders = <<>>) =>
             /\ lastOp'.outcome = "No riders found!"
             /\ order_queue' = SubSeq(order_queue, 2, Len(order_queue))
             /\ UNCHANGED <<undo_stack, order_id_counter>> ]_vars
    /\ [](\A i \in 1..Len(order_queue), k \in 1..Len(processed) :
             order_queue[i].order_id # processed[k])

\* an order was dropped for want of riders while another stayed queued
C7_Witness ==
    /\ lastOp.outcome = "No riders found!"
    /\ my_riders = <<>>
    /\ processed = <<1>>
    /\ order_queue # <<>>

\* C8: process_order with an empty queue reports it and changes no rider, not
\* the rider order, the undo stack, the queue or the counter.
C8_EmptyQueueNoChange ==
    [][ (process_order /\ order_queue = <<>>) =>
          /\ lastOp'.outcome = "No orders pending."
          /\ UNCHANGED <<my_riders, undo_stack, order_queue, order_id_counter,
                         my_restaurants>> ]_vars

\* the empty queue was reported after an order had gone through
C8_Witness ==
    /\ lastOp.outcome = "No orders pending."
    /\ processed # <<>>
    /\ undo_stack # <<>>
    /\ my_riders # <<>>

\* C9: undo_last_action takes at most the last line off the undo stack and
\* leaves the restaurants, the riders, the queue and the counter alone.
C9_UndoOnlyPopsLog ==
    [][ undo_last_action =>
          /\ UNCHANGED <<my_restaurants, my_riders, order_queue, order_id_counter>>
          /\ undo_stack # <<>> =>
                undo_stack' = SubSeq(undo_stack, 1, Len(undo_stack) - 1) ]_vars

\* the placing of order 2 was undone: order 2 is still queued, and the rider
\* that delivered order 1 is still moved and counted
C9_Witness ==
    /\ lastOp.op = "undo_last_action"
    /\ lastOp.last_action = <<"Placed Order #", 2>>
    /\ \E i \in 1..Len(order_queue) : order_queue[i].order_id = 2
    /\ processed = <<1>>
    /\ \E i \in 1..Len(my_riders) :
          /\ my_riders[i].location \in CustLocInputs
          /\ my_riders[i].deliveries_done > 0

\* C10: the undo stack holds the recorded lines not yet undone, oldest first:
\* every other step leaves it alone or adds one line at its end, and each
\* undo_last_action on a non-empty stack returns and removes the line at its
\* end, the one recorded last; on an empty stack it reports nothing to undo.
C10_HistoryIsLIFO ==
    [][ IF undo_last_action
        THEN IF undo_stack = <<>>
             THEN lastOp'.outcome = "Nothing to undo." /\ undo_stack' = <<>>
             ELSE /\ lastOp'.outcome = "Undoing action"
                  /\ lastOp'.last_action = undo_stack[Len(undo_stack)]
                  /\ undo_stack' = SubSeq(undo_stack, 1, Len(undo_stack) - 1)
        ELSE \/ undo_stack' = undo_stack
             \/ /\ Len(undo_stack') = Len(undo_stack) + 1
                /\ SubSeq(undo_stack', 1, Len(undo_stack)) = undo_stack
                /\ \A i \in 1..Len(undo_stack) :
                      undo_stack[i] # undo_stack'[Len(undo_stack')] ]_vars

\* an undo returned the line of a processing recorded after an earlier undo,
\* while the older line of a placing is still on the stack
C10_Witness ==
    /\ lastOp.op = "undo_last_action"
    /\ lastOp.last_action = <<"Processed Order #", 2>>
    /\ undo_stack = << <<"Placed Order #", 1>> >>
    /\ processed = <<1, 2>>

\* C11: show_riders_sorted leaves the same riders in ascending order of
\* deliveries_done, riders with equal deliveries_done keep their relative
\* order, and sorting the result again, or a second show_riders_sorted right
\* after the first, changes nothing.
C11_SortStableIdempotent ==
    [][ show_riders_sorted =>
          /\ Len(my_riders') = Len(my_riders)
          /\ \A i \in 1..Len(my_riders) :
                \E a \in 1..Len(my_riders') : my_riders'[a] = my_riders[i]
          /\ \A a, b \in 1..Len(my_riders') :
                a < b => my_riders'[a].deliveries_done <= my_riders'[b].deliveries_done
          /\ \A i, j \in 1..Len(my_riders) :
                (i < j /\ my_riders[i].deliveries_done = my_riders[j].deliveries_done)
                => \E a, b \in 1..Len(my_riders') :
                      /\ a < b
                      /\ my_riders'[a] = my_riders[i]
                      /\ my_riders'[b] = my_riders[j]
          /\ SortByDeliveries(my_riders') = my_riders'
          /\ lastOp.op = "show_riders_sorted" => my_riders' = my_riders ]_vars

\* the seeded riders were reordered: Hamza moved ahead of Bilal, and stayed
\* behind Ali, who has as many deliveries
C11_Witness ==
    /\ lastOp.op = "show_riders_sorted"
    /\ Len(my_riders) = 3
    /\ my_riders[1].id = 201 /\ my_riders[1].deliveries_done = 0
    /\ my_riders[2].id = 203 /\ my_riders[2].deliveries_done = 0
    /\ my_riders[3].id = 202

\* C12: whatever restaurants were added and in whatever order, find_by_id
\* gives None exactly for an id no restaurant of the list has, and otherwise
\* a restaurant of the list with that id (the one added first); place_order
\* reports the invalid id in the first case and snapshots the name and
\* location of that restaurant in the second.
C12_FindByIdFindsRegistered ==
    /\ [](\A id \in RestIdInputs :
            LET r == find_by_id(my_restaurants, id) IN
            IF \A i \in 1..Len(my_restaurants) : my_restaurants[i].id # id
            THEN r = NoRestaurant
            ELSE \E i \in 1..Len(my_restaurants) :
                    /\ my_restaurants[i].id = id
                    /\ r = my_restaurants[i]
                    /\ \A j \in 1..(i - 1) : my_restaurants[j].id # id)
    /\ [][ \A rest_id \in RestIdInputs, cust_loc \in CustLocInputs :
             place_order(rest_id, cust_loc) =>
               IF \A i \in 1..Len(my_restaurants) : my_restaurants[i].id # rest_id
               THEN lastOp'.outcome = "Invalid Restaurant ID!"
               ELSE /\ lastOp'.outcome = "Success!"
                    /\ \E i \in 1..Len(my_restaurants) :
                          /\ my_restaurants[i].id = rest_id
                          /\ lastOp'.order.restaurant_name = my_restaurants[i].name
                          /\ lastOp'.order.restaurant_loc = my_restaurants[i].location ]_vars

\* restaurant 101 was found behind restaurant 103, which was added first
C12_Witness ==
    /\ Len(my_restaurants) = 2
    /\ my_restaurants[1].id = 103
    /\ my_restaurants[2].id = 101
    /\ lastOp.outcome = "Success!"
    /\ lastOp.order.restaurant_name = "Burger King"
    /\ lastOp.order.restaurant_loc = 2

\* C13: no two restaurants of the list have the same id.
C13_RestaurantIdsUnique ==
    \A i, j \in 1..Len(my_restaurants) :
        my_restaurants[i].id = my_restaurants[j].id => i = j

\* C14: every assignment reports a time to the restaurant equal to the
\* distance between the assigned rider, where it stood before the move, and
\* the restaurant, a time to the customer equal to the distance between the
\* restaurant and the customer, and their sum as the total; none is negative.
C14_AssignmentDistances ==
    [][ (process_order /\ lastOp'.outcome = "Assigned") =>
          LET o == order_queue[1]
              toRest == my_riders[lastOp'.best_rider].location - o.restaurant_loc
              toCust == o.restaurant_loc - o.customer_loc
          IN /\ lastOp'.min_distance = (IF toRest < 0 THEN -toRest ELSE toRest)
             /\ lastOp'.dist_to_cust = (IF toCust < 0 THEN -toCust ELSE toCust)
             /\ lastOp'.total_dist = lastOp'.min_distance + lastOp'.dist_to_cust
             /\ lastOp'.min_distance >= 0
             /\ lastOp'.dist_to_cust >= 0
             /\ lastOp'.total_dist >= 0 ]_vars

\* the seeded order from restaurant 101 to customer 7: Ali, 1 + 5 = 6
C14_Witness ==
    /\ lastOp.outcome = "Assigned"
    /\ lastOp.order.restaurant_loc = 2
    /\ lastOp.order.customer_loc = 7
    /\ lastOp.min_distance = 1
    /\ lastOp.dist_to_cust = 5
    /\ lastOp.total_dist = 6
    /\ my_riders[lastOp.best_rider].id = 201
    /\ my_riders[lastOp.best_rider].location = 7
    /\ my_riders[lastOp.best_rider].deliveries_done = 1

\* C15: no operation of the menu removes a rider or lowers a rider's
\* deliveries_done; it changes only in a process_order that assigns that
\* rider, and then by exactly one.
C15_DeliveriesMonotone ==
    [][ pc = "menu" =>
        /\ Len(my_riders') = Len(my_riders)
        /\ \A i \in 1..Len(my_riders) :
              \E j \in 1..Len(my_riders') :
                 /\ my_riders'[j].id = my_riders[i].id
                 /\ my_riders'[j].deliveries_done >= my_riders[i].deliveries_done
                 /\ my_riders'[j].deliveries_done # my_riders[i].deliveries_done
                      => /\ process_order
                         /\ lastOp'.outcome = "Assigned"
                         /\ lastOp'.best_rider = i
                         /\ my_riders'[j].deliveries_done
                              = my_riders[i].deliveries_done + 1 ]_vars

\* Bilal went from 2 to 3 deliveries and Ali from 0 to 1, the riders were then
\* ranked, and both lines were undone: the counts stay
C15_Witness ==
    /\ lastOp.op = "undo_last_action"
    /\ Len(undo_stack) = 2
    /\ processed = <<1, 2>>
    /\ my_riders[1].id = 203
    /\ \E i, j \in 1..Len(my_riders) :
          /\ my_riders[i].id = 202 /\ my_riders[i].deliveries_done = 3
          /\ my_riders[j].id = 201 /\ my_riders[j].deliveries_done = 1

\* C16: a process_order that assigns a rider leaves every other rider as it
\* was, in the same place of the list, and place_order, successful or not,
\* leaves all riders as they were.
C16_OnlyAssignedRiderChanges ==
    [][ /\ (process_order /\ lastOp'.outcome = "Assigned") =>
              /\ Len(my_riders') = Len(my_riders)
              /\ \A i \in 1..Len(my_riders) :
                    i # lastOp'.best_rider => my_riders'[i] = my_riders[i]
        /\ \A rest_id \in RestIdInputs, cust_loc \in CustLocInputs :
              place_order(rest_id, cust_loc) => my_riders' = my_riders ]_vars

\* Bilal was assigned; Ali and Hamza are where initialize_data put them
C16_Witness ==
    /\ lastOp.outcome = "Assigned"
    /\ lastOp.best_rider = 2
    /\ Len(my_riders) = 3
    /\ my_riders[2].id = 202
    /\ my_riders[1] = Rider(201, "Ali", 1, 0)
    /\ my_riders[3] = Rider(203, "Hamza", 3, 0)

\* C17: a successful place_order appends exactly one line, "Placed Order #"
\* with the id just given out; a process_order that assigns a rider appends
\* exactly one line, "Processed Order #" with the id of the order taken; a
\* place_order with an invalid id and a process_order that finds the queue
\* empty or finds no rider leave the undo stack as it was.
C17_OneLogLinePerSuccess ==
    [][ /\ \A rest_id \in RestIdInputs, cust_loc \in CustLocInputs :
              place_order(rest_id, cust_loc) =>
                IF lastOp'.outcome = "Success!"
                THEN /\ lastOp'.order.order_id = order_id_counter
                     /\ undo_stack' = Append(undo_stack,
                                             <<"Placed Order #", order_id_counter>>)
                ELSE /\ lastOp'.outcome = "Invalid Restaurant ID!"
                     /\ undo_stack' = undo_stack
        /\ process_order =>
              IF lastOp'.outcome = "Assigned"
              THEN undo_stack' = Append(undo_stack,
                                        <<"Processed Order #", order_queue[1].order_id>>)
              ELSE /\ lastOp'.outcome \in {"No orders pending.", "No riders found!"}
                   /\ undo_stack' = undo_stack ]_vars

\* orders 1 and 2 placed, order 1 assigned and logged, order 2 found no rider
\* and left no line
C17_Witness ==
    /\ lastOp.outcome = "No riders found!"
    /\ my_riders # <<>>
    /\ processed = <<1, 2>>
    /\ undo_stack = << <<"Placed Order #", 1>>, <<"Placed Order #", 2>>,
                       <<"Processed Order #", 1>> >>

\* C18: the queue holds order ids in strictly increasing order from head to
\* tail, all below the counter; no id is taken off the queue twice and an id
\* taken off is not in the queue; the ids given out are as many as the
\* queued ones plus the ones taken off.
C18_OrdersConsumedOnce ==
    /\ \A i, j \in 1..Len(order_queue) :
          i < j => order_queue[i].order_id < order_queue[j].order_id
    /\ \A i \in 1..Len(order_queue) :
          /\ order_queue[i].order_id >= FIRST_ORDER_ID
          /\ order_queue[i].order_id < order_id_counter
    /\ \A k, l \in 1..Len(processed) : processed[k] = processed[l] => k = l
    /\ \A i \in 1..Len(order_queue), k \in 1..Len(processed) :
          order_queue[i].order_id # processed[k]
    /\ order_id_counter - FIRST_ORDER_ID = Len(order_queue) + Len(processed)
    /\ Len(placed) = Len(order_queue) + Len(processed)

\* order 2 was placed after order 1 had been taken off the queue
C18_Witness ==
    /\ lastOp.op = "place_order"
    /\ lastOp.outcome = "Success!"
    /\ processed = <<1>>
    /\ Len(order_queue) = 1
    /\ order_queue[1].order_id = 2
    /\ order_id_counter = 3

\* C19: with an order waiting, the rider the next process_order assigns is
\* the same rider whether or not show_riders_sorted runs first.
C19_RankingKeepsDispatch ==
    (pc = "menu" /\ order_queue # <<>>) =>
        LET loc == order_queue[1].restaurant_loc
            ranked == SortByDeliveries(my_riders)
            direct == ScanRiders(my_riders, loc, 1, 0, START_MIN_DISTANCE).best_rider
            after == ScanRiders(ranked, loc, 1, 0, START_MIN_DISTANCE).best_rider
        IN IF direct = 0 \/ after = 0
           THEN direct = after
           ELSE my_riders[direct].id = ranked[after].id

\* C20: while the program has not exited and process_order keeps being
\* chosen, every queued order leaves the queue and the queue runs empty; each
\* process_order moves every queued order one place toward the head and takes
\* the head off, and no other step moves a queued order, so an order with k
\* orders ahead of it leaves at the (k+1)-th process_order.
C20_OrdersEventuallyLeave ==
    /\ \A id \in 1..MaxOrders :
          (\E p \in 1..Len(order_queue) : order_queue[p].order_id = id)
          ~> (\/ pc = "exit"
              \/ \A p \in 1..Len(order_queue) : order_queue[p].order_id # id)
    /\ (order_queue # <<>>) ~> (pc = "exit" \/ order_queue = <<>>)
    /\ [][ \A p \in 1..Len(order_queue) :
             IF process_order
             THEN /\ Len(order_queue') = Len(order_queue) - 1
                  /\ p > 1 => order_queue'[p - 1] = order_queue[p]
                  /\ p = 1 => \A q \in 1..Len(order_queue') :
                                 order_queue'[q].order_id # order_queue[1].order_id
             ELSE /\ Len(order_queue') >= p
                  /\ order_queue'[p] = order_queue[p] ]_vars

\* order 2, placed behind order 1, left at the second process_order
C20_Witness ==
    /\ lastOp.op = "process_order"
    /\ lastOp.order.order_id = 2
    /\ placed = <<1, 2>>
    /\ processed = <<1, 2>>
    /\ order_queue = <<>>
    /\ Len(undo_stack) = 4

====
